---- MODULE Spec2Model ----
(***************************************************************************)
(* Model of the "copo" (cup) generator of jpgestevez/mata95.               *)
(*                                                                         *)
(* Three scripts of the repository are modelled side by side; a request    *)
(* names the script that serves it:                                        *)
(*   "oficial" : src/projetocopoversaooficial.py (Streamlit page)          *)
(*   "legacy"  : src/unnamed/part_000, first script (Streamlit page)       *)
(*   "cli"     : src/copo_pyvista_polares.py (command line)                *)
(*                                                                         *)
(* Numbers.  Heights are integers that are multiples of D, so every        *)
(* np.linspace grid used by the scripts falls on integers.  Radii are      *)
(* integers.  A volume is kept as 2*V/pi, which is an integer for the      *)
(* trapezoidal rule over A(z) = pi*r(z)^2.  Angles are integers in units   *)
(* of 1/TURN of a full turn.                                               *)
(*                                                                         *)
(* Points.  A Cartesian point (r*cos t, r*sin t, z) is kept as <<r, t, z>>;*)
(* r = 0 collapses to <<0, 0, z>> whatever the angle.  The angle TURN      *)
(* (2*pi) is kept distinct from the angle 0: in binary64,                  *)
(* np.sin(2*np.pi) = -2.4e-16, so r*sin(2*pi) differs from 0.0 in its last *)
(* bits whenever r # 0.  Coincide compares two points up to that error.    *)
(*                                                                         *)
(* Specifications.  Spec runs one request at a time through a script;      *)
(* SpecHistory adds the memory of one earlier request; SpecSessions runs   *)
(* the render block of the Streamlit pages (screenshot, st.image, STL      *)
(* download) for N_SESSIONS browser sessions of one process, statement by  *)
(* statement, over the files they write.                                   *)
(***************************************************************************)
EXTENDS Integers, Sequences, FiniteSets, TLC

\* ---------------------------------------------------------------- bounds
\* Scaled-down sample counts (the source uses 1000, 150/300, 100/240, 50, 256).
N_Z_INT == 3
N_Z == 3
N_THETA == 4
N_TEST == 2
N_POINTS == 4

\* Browser sessions served by one Streamlit process at the same time.
N_SESSIONS == 2

\* Temporary file names handed out before the model stops a session.
N_TMP == 3

\* Every grid step divides D.
D == (N_Z_INT - 1) * (N_Z - 1) * (N_TEST - 1)

\* A full turn (2*pi) in angle units; every angular step divides TURN.
TURN == (N_THETA - 1) * N_THETA * (N_POINTS - 1)

\* --------------------------------------------------------------- state
VARIABLES
  variant,    \* the script serving the request
  r0, H, expr,\* the inputs of the request
  args_n_z,        \* the sample count of the volume integrator
  pc,         \* position of the script
  f_func,     \* the expression bound in the closure f, or "unbound"
  vol,        \* the volume computed (2*V/pi)
  Rz,         \* the radii the integrator used
  Rg,         \* the radii the wall lattice used
  raio_base,  \* the radius the base disk was built with
  wall,       \* the wall: StructuredGrid, then surface
  bottom,     \* the base disk
  combined,   \* the wall and the disk together
  mesh,       \* the mesh returned to the caller
  error,      \* the error surfaced to the caller, or "none"
  caught,     \* the except branches that replaced an exception by a default
  out,        \* what the caller was given: "volume", "image", "stl"
  memo,       \* the inputs and results of one earlier request (history)
  session,    \* per browser session: position and names of the render block
  temp_copo,  \* the content of the file "temp_copo.png" of the working directory
  tmp_files   \* the content of the files made by tempfile.NamedTemporaryFile

inputs == <<variant, r0, H, expr, args_n_z>>
locals == <<Rz, Rg, raio_base, wall, bottom, combined>>
served == <<session, temp_copo, tmp_files>>
pipeline == <<inputs, pc, f_func, vol, locals, mesh, error, caught, out, memo>>
vars == <<variant, r0, H, expr, args_n_z, pc, f_func, vol, Rz, Rg, raio_base, wall, bottom,
          combined, mesh, error, caught, out, memo, session, temp_copo, tmp_files>>

\* ---------------------------------------------------------------- inputs
Variants == {"oficial", "legacy", "cli"}

\* st.number_input("Raio da Base (cm)", 0.5, 20.0, ...): the page only
\* delivers r0 >= 0.5 and height >= 1.0; argparse delivers any float.
RadiiUI == {1, 3}
HeightsUI == {D}
RadiiCLI == {-1, 0, 3}
HeightsCLI == {0, D}

\* def calcular_volume(r0, height, f_func, n_z=1000) is always called with
\* the default; parser.add_argument("--n_z", type=int, default=1000)
\* delivers any integer.
SamplesUI == {N_Z_INT}
SamplesCLI == {1, N_Z_INT}

\* Expressions a user can type.  "dip" stands for
\* where((z>0)&(z<D), -5, 0): negative strictly inside the height range.
Exprs == {"0", "-5", "undefined_symbol", "0*z", "z+1", "-z", "dip"}

\* ------------------------------------------------------------ numexpr
\* ne.evaluate raises on a name that is not in local_dict.
Defined(e) == e # "undefined_symbol"

\* An expression without z is a constant: ne.evaluate returns a 0-d array
\* whatever the shape of z.
IsConstant(e) == e \in {"0", "-5"}

ExprValue(e, z) ==
  CASE e = "0" -> 0
    [] e = "-5" -> -5
    [] e = "0*z" -> 0
    [] e = "z+1" -> z + 1
    [] e = "-z" -> 0 - z
    [] e = "dip" -> IF z > 0 /\ z < D THEN -5 ELSE 0
    [] OTHER -> 0

\* An array value: ndim 0 holds a scalar in s; ndim 1 a sequence in a;
\* ndim 2 a sequence of rows in a.
Scalar(c) == [ndim |-> 0, s |-> c, a |-> <<>>]
Arr1(x) == [ndim |-> 1, s |-> 0, a |-> x]
Arr2(x) == [ndim |-> 2, s |-> 0, a |-> x]

\* Elementwise application of a function on the numbers, keeping the shape.
Map(g, x) ==
  CASE x.ndim = 0 -> Scalar(g[x.s])
    [] x.ndim = 1 -> Arr1([i \in DOMAIN x.a |-> g[x.a[i]]])
    [] OTHER -> Arr2([i \in DOMAIN x.a |-> [j \in DOMAIN x.a[i] |-> g[x.a[i][j]]]])

\* ne.evaluate(expr, local_dict={'z': z_arr, ...}) for a defined expression.
ne_evaluate(e, z_arr) ==
  IF IsConstant(e) THEN Scalar(ExprValue(e, 0))
  ELSE Map([z \in Int |-> ExprValue(e, z)], z_arr)

\* np.zeros_like(z_arr)
zeros_like(z_arr) == Map([z \in Int |-> 0], z_arr)

\* np.linspace(0.0, h, n): n samples, both ends included; the single sample
\* of n = 1 is the start, 0.0.
linspace(h, n) == [i \in 1..n |-> IF n = 1 THEN 0 ELSE ((i - 1) * h) \div (n - 1)]

\* np.meshgrid(theta, Z): Tg[i][j] = theta[j], Zg[i][j] = Z[i].
meshgrid_T(theta, Z) == [i \in DOMAIN Z |-> [j \in DOMAIN theta |-> theta[j]]]
meshgrid_Z(theta, Z) == [i \in DOMAIN Z |-> [j \in DOMAIN theta |-> Z[i]]]

\* r0 + f_func(Z);  np.maximum(Rz, 0)
plus(r, x) == Map([v \in Int |-> r + v], x)
maximum0(x) == Map([v \in Int |-> IF v < 0 THEN 0 ELSE v], x)

\* The closure f returned by make_f_func of the Streamlit scripts: a
\* failing evaluation is replaced by zeros of the shape of z.
f_ui(e, z_arr) == IF Defined(e) THEN ne_evaluate(e, z_arr) ELSE zeros_like(z_arr)

\* The closure f returned by make_f_func of the command-line script: a
\* failing evaluation raises ValueError.
f_cli(e, z_arr) ==
  IF Defined(e) THEN [raised |-> "none", val |-> ne_evaluate(e, z_arr)]
  ELSE [raised |-> "ValueError", val |-> Scalar(0)]

\* ------------------------------------------------------------ volume
\* Mutant: the area of a slice taken as linear in the radius.
RECURSIVE trapz_sum_linear(_, _, _)
trapz_sum_linear(rr, Z, i) ==
  IF i >= Len(Z) THEN 0
  ELSE (rr[i] + rr[i + 1]) * (Z[i + 1] - Z[i])
       + trapz_sum_linear(rr, Z, i + 1)

RECURSIVE trapz_sum(_, _, _)
trapz_sum(rr, Z, i) ==
  IF i >= Len(Z) THEN 0
  ELSE (rr[i] * rr[i] + rr[i + 1] * rr[i + 1]) * (Z[i + 1] - Z[i])
       + trapz_sum(rr, Z, i + 1)

\* np.trapezoid(np.pi * Rz**2, Z), as 2*V/pi.  A 0-d y raises IndexError
\* (shape = [1]*y.ndim is empty, shape[axis] = ... fails).
trapz(y, Z) ==
  IF y.ndim = 0 THEN [raised |-> "IndexError", v |-> 0]
  ELSE [raised |-> "none", v |-> trapz_sum(y.a, Z, 1)]

\* Mutant: a volume accumulated over the requests of the process.
calcular_volume_acc(r, h, e, n) ==
  LET Z == linspace(h, n)
      Rz_ == maximum0(plus(r, f_ui(e, Arr1(Z))))
      t == trapz(Rz_, Z)
  IN [vol |-> (IF t.raised = "none" THEN t.v ELSE 0) + memo.vol,
      Rz |-> Rz_,
      caught |-> (IF t.raised = "none" THEN {} ELSE {"calcular_volume"})
                 \cup (IF Defined(e) THEN {} ELSE {"f"}),
      raised |-> "none"]

\* calcular_volume(r0, H, f_func, n_z): radii clamped at 0, any exception
\* replaced by 0.0.
calcular_volume(r, h, e, n) ==
  LET Z == linspace(h, n)
      Rz_ == maximum0(plus(r, f_ui(e, Arr1(Z))))
      t == trapz(Rz_, Z)
  IN [vol |-> IF t.raised = "none" THEN t.v ELSE 0,
      Rz |-> Rz_,
      caught |-> (IF t.raised = "none" THEN {} ELSE {"calcular_volume"})
                 \cup (IF Defined(e) THEN {} ELSE {"f"}),
      raised |-> "none"]

\* volume_polar_numeric(r0, H, f_func, n_z): no clamp, no except.
volume_polar_numeric(r, h, e, n) ==
  LET Z == linspace(h, n)
      fz == f_cli(e, Arr1(Z))
      Rz_ == plus(r, fz.val)
      t == trapz(Rz_, Z)
  IN [vol |-> IF fz.raised = "none" /\ t.raised = "none" THEN t.v ELSE 0,
      Rz |-> Rz_,
      caught |-> {},
      raised |-> IF fz.raised # "none" THEN fz.raised ELSE t.raised]

\* -------------------------------------------------------------- meshes
\* (r*cos(t), r*sin(t), z): a zero radius gives the axis point at any angle.
Polar(r, t, z) == IF r = 0 THEN <<0, 0, z>> ELSE <<r, t, z>>

\* Two points are the same up to floating-point error: angle 0 = angle 2*pi.
Coincide(p, q) == p[1] = q[1] /\ p[3] = q[3] /\ (p[2] % TURN) = (q[2] % TURN)

NoneMesh == [kind |-> "None", points |-> <<>>, cells |-> <<>>]

\* Mutant: the angular range stops short of 2*pi (endpoint=False).
theta_samples_open(n) == [j \in 1..n |-> ((j - 1) * TURN) \div n]

\* np.linspace(0.0, 2*np.pi, n): both 0 and 2*pi are samples.
theta_samples(n) == [j \in 1..n |-> ((j - 1) * TURN) \div (n - 1)]

\* Element of a 2-D operand at (i, j); a 0-d operand broadcasts.
At(x, i, j) == IF x.ndim = 0 THEN x.s ELSE x.a[i][j]

\* Mutant: the lattice is flattened column by column (order='F').
wall_points_F(R, Tg, Zg) ==
  LET n_z == Len(Zg)
      n_theta == Len(Zg[1])
  IN [k \in 1..(n_z * n_theta) |->
        LET i == ((k - 1) % n_z) + 1
            j == ((k - 1) \div n_z) + 1
        IN Polar(At(R, i, j), Tg[i][j], Zg[i][j])]

\* pts = np.column_stack((X.ravel(), Y.ravel(), Zg.ravel())) with
\* X = Rg*cos(Tg), Y = Rg*sin(Tg): row-major, flat position (i-1)*n_theta + j.
wall_points(R, Tg, Zg) ==
  LET n_z == Len(Zg)
      n_theta == Len(Zg[1])
  IN [k \in 1..(n_z * n_theta) |->
        LET i == ((k - 1) \div n_theta) + 1
            j == ((k - 1) % n_theta) + 1
        IN Polar(At(R, i, j), Tg[i][j], Zg[i][j])]

\* pv.StructuredGrid with dimensions [n_theta, n_z, 1]: point (ix, iy) is at
\* flat position iy*n_theta + ix; one quad per lattice square.
StructuredGrid(n_theta, n_z, pts) ==
  [kind |-> "StructuredGrid",
   points |-> pts,
   cells |-> [c \in 1..((n_theta - 1) * (n_z - 1)) |->
                LET iy == (c - 1) \div (n_theta - 1)
                    ix == (c - 1) % (n_theta - 1)
                    p == iy * n_theta + ix + 1
                IN <<p, p + 1, p + 1 + n_theta, p + n_theta>>]]

\* extract_surface(): the same points and faces as a PolyData.
extract_surface(m) == [m EXCEPT !.kind = "PolyData"]

RECURSIVE Flatten(_)
Flatten(ss) == IF ss = <<>> THEN <<>> ELSE Head(ss) \o Flatten(Tail(ss))

\* triangulate(): every polygon of n points becomes a fan of n-2 triangles
\* with a fixed diagonal direction.
Fan(c) == [t \in 1..(Len(c) - 2) |-> <<c[1], c[t + 1], c[t + 2]>>]
triangulate(m) == [m EXCEPT !.cells = Flatten([k \in DOMAIN m.cells |-> Fan(m.cells[k])])]

\* pv.Circle(radius, resolution): one polygon of `resolution` points at
\* z = 0, at the angles 2*pi*k/resolution, k = 0..resolution-1.
Circle(radius, resolution) ==
  [kind |-> "PolyData",
   points |-> [k \in 1..resolution |-> Polar(radius, ((k - 1) * TURN) \div resolution, 0)],
   cells |-> << [k \in 1..resolution |-> k] >>]

\* flip_normals(): reverses the winding of every face of the mesh it is
\* called on, in place, and returns None (it has no return statement).
Reverse(c) == [k \in 1..Len(c) |-> c[Len(c) + 1 - k]]
flip_normals(m) ==
  [self |-> [m EXCEPT !.cells = [k \in DOMAIN m.cells |-> Reverse(m.cells[k])]],
   returned |-> NoneMesh]

\* Point merging at tolerance 0: points with identical coordinates become
\* one point (the first), faces are renumbered.
FirstIdx(pts, k) == CHOOSE m \in 1..k : pts[m] = pts[k] /\ \A n \in 1..(m - 1) : pts[n] # pts[k]
merge_points(m) ==
  LET first == [k \in DOMAIN m.points |-> FirstIdx(m.points, k)]
      kept == {k \in DOMAIN m.points : first[k] = k}
      newIdx == [k \in DOMAIN m.points |-> Cardinality({n \in kept : n <= first[k]})]
      old == [n \in 1..Cardinality(kept) |-> CHOOSE k \in kept : newIdx[k] = n]
  IN [m EXCEPT
        !.points = [n \in 1..Cardinality(kept) |-> m.points[old[n]]],
        !.cells = [c \in DOMAIN m.cells |->
                     [v \in DOMAIN m.cells[c] |-> newIdx[m.cells[c][v]]]]]

\* a + b / a.merge(b): the points and faces of both, coincident points merged;
\* a PolyData only when both are PolyData.  b = None appends nothing.
Shift(c, n) == [v \in DOMAIN c |-> c[v] + n]
merge(a, b) ==
  merge_points(
    [kind |-> IF a.kind = "PolyData" /\ b.kind = "PolyData"
              THEN "PolyData" ELSE "UnstructuredGrid",
     points |-> a.points \o b.points,
     cells |-> a.cells \o [c \in DOMAIN b.cells |-> Shift(b.cells[c], Len(a.points))]])

\* clean(): merges coincident points (tolerance 0) and turns faces with
\* fewer than three distinct points into lines, which are no faces.
Range(s) == {s[k] : k \in DOMAIN s}
SelectCells(cs) == SelectSeq(cs, LAMBDA c : Cardinality(Range(c)) >= 3)
clean(m) ==
  LET w == merge_points(m)
  IN [w EXCEPT !.cells = SelectCells(w.cells)]

\* Edges that lie on exactly one face; vertices reachable over faces.
Edges(c) == {{c[k], c[(k % Len(c)) + 1]} : k \in DOMAIN c}
FaceCount(m, e) == Cardinality({k \in DOMAIN m.cells : e \in Edges(m.cells[k])})
AllEdges(m) == UNION {Edges(m.cells[k]) : k \in DOMAIN m.cells}
BoundaryEdges(m) == {e \in AllEdges(m) : FaceCount(m, e) = 1}
RECURSIVE Reach(_, _)
Reach(m, S) ==
  LET T == S \cup UNION {Range(m.cells[k]) : k \in {n \in DOMAIN m.cells : Range(m.cells[n]) \cap S # {}}}
  IN IF T = S THEN S ELSE Reach(m, T)
UsedVertices(m) == UNION {Range(m.cells[k]) : k \in DOMAIN m.cells}
OneComponent(m) ==
  UsedVertices(m) # {} /\ \A v \in UsedVertices(m) : Reach(m, {v}) = UsedVertices(m)

\* ------------------------------------------------------------------ files
\* A file that does not exist; the image plotter.screenshot(path) writes for
\* a mesh; the STL mesh.save(path) writes for a mesh.  A mesh is named here
\* by the base radius of the request it was generated for.
NoFile == [kind |-> "absent", of |-> 0]
screenshot(m) == [kind |-> "png", of |-> m]
save(m) == [kind |-> "stl", of |-> m]

\* --------------------------------------------------------------- requests
UI == {"oficial", "legacy"}

NoMemo == [set |-> FALSE, current |-> FALSE, variant |-> "", r0 |-> 0, H |-> 0, expr |-> "", n_z |-> 0,
           vol |-> 0, mesh |-> NoneMesh, error |-> "", out |-> {}]

\* Streamlit runs the script of every browser session in a thread of its
\* own, in one process and one working directory.
Sessions == 1..N_SESSIONS
TmpNames == 1..N_TMP
Idle == [pc |-> "idle", mesh |-> 0, shown |-> NoFile, tmp |-> 0, offered |-> NoFile]

Blank ==
  /\ f_func = "unbound"
  /\ vol = 0
  /\ Rz = Scalar(0)
  /\ Rg = Scalar(0)
  /\ raio_base = 0
  /\ wall = NoneMesh
  /\ bottom = NoneMesh
  /\ combined = NoneMesh
  /\ mesh = NoneMesh
  /\ error = "none"
  /\ caught = {}
  /\ out = {}

Unbind ==
  /\ f_func' = "unbound"
  /\ vol' = 0
  /\ Rz' = Scalar(0)
  /\ Rg' = Scalar(0)
  /\ raio_base' = 0
  /\ wall' = NoneMesh
  /\ bottom' = NoneMesh
  /\ combined' = NoneMesh
  /\ mesh' = NoneMesh
  /\ error' = "none"
  /\ caught' = {}
  /\ out' = {}

Init ==
  /\ variant = ""
  /\ r0 = 0
  /\ H = 0
  /\ expr = ""
  /\ args_n_z = N_Z_INT
  /\ pc = "idle"
  /\ Blank
  /\ memo = NoMemo
  /\ session = [s \in Sessions |-> Idle]
  /\ temp_copo = NoFile
  /\ tmp_files = [n \in TmpNames |-> NoFile]

\* A run of a script: a rerun of the Streamlit page or a process of the
\* command-line script.  Every name of the script starts unbound.
Request ==
  /\ pc \in {"idle", "done"}
  /\ \E v \in Variants, e \in Exprs :
       \E r \in (IF v \in UI THEN RadiiUI ELSE RadiiCLI),
          h \in (IF v \in UI THEN HeightsUI ELSE HeightsCLI),
          n \in (IF v \in UI THEN SamplesUI ELSE SamplesCLI) :
         /\ variant' = v
         /\ args_n_z' = n
         /\ r0' = r
         /\ H' = h
         /\ expr' = e
  /\ pc' = "start"
  /\ Unbind
  /\ memo' = [memo EXCEPT !.current = FALSE]
  /\ UNCHANGED served

\* History: keeps the inputs and results of one finished request; current
\* tells that the request kept is the one that has just finished.
Remember ==
  /\ pc = "done"
  /\ ~memo.set
  /\ memo' = [set |-> TRUE, current |-> TRUE, variant |-> variant, r0 |-> r0, H |-> H, expr |-> expr,
              n_z |-> args_n_z,
              vol |-> vol, mesh |-> mesh, error |-> error, out |-> out]
  /\ UNCHANGED <<inputs, served, pc, f_func, vol, locals, mesh, error, caught, out>>

\* ------------------------------------------------- the Streamlit pages
\* f_func = make_f_func(func_str): nothing is evaluated, nothing can fail.
MakeF ==
  /\ pc = "start"
  /\ variant \in UI
  /\ f_func' = expr
  /\ pc' = "volume"
  /\ UNCHANGED <<inputs, served, vol, locals, mesh, error, caught, out, memo>>

\* vol = calcular_volume(r0, height, f_func); st.info(...) shows it.
CalcularVolume ==
  /\ pc = "volume"
  /\ variant \in UI
  /\ LET res == calcular_volume(r0, H, f_func, args_n_z)
     IN /\ vol' = res.vol
        /\ Rz' = res.Rz
        /\ caught' = caught \cup res.caught
  /\ out' = out \cup {"volume"}
  /\ pc' = "gerar_mesh"
  /\ UNCHANGED <<inputs, served, f_func, Rg, raio_base, wall, bottom, combined, mesh, error, memo>>

\* gerar_mesh, the try block: the wall radii and the radius of the disk.
\* f_func(np.array([0.0]))[0] raises IndexError on a 0-d result, and the
\* except returns None.
GerarMeshRadii ==
  /\ pc = "gerar_mesh"
  /\ variant \in UI
  /\ LET Z == linspace(H, N_Z)
         theta == theta_samples(N_THETA)
         Zg == meshgrid_Z(theta, Z)
         base == f_ui(f_func, Arr1(<<0>>))
     IN /\ Rg' = maximum0(plus(r0, f_ui(f_func, Arr2(Zg))))
        /\ caught' = caught \cup (IF Defined(f_func) THEN {} ELSE {"f"})
                            \cup (IF variant = "oficial" /\ base.ndim = 0
                                  THEN {"gerar_mesh"} ELSE {})
        /\ IF variant = "oficial"
           THEN IF base.ndim = 0
                THEN /\ raio_base' = raio_base
                     /\ pc' = "ui_result"
                ELSE /\ raio_base' = (IF r0 + base.a[1] < 0 THEN 0 ELSE r0 + base.a[1])
                     /\ pc' = "wall"
           ELSE /\ raio_base' = r0
                /\ pc' = "wall"
  /\ UNCHANGED <<inputs, served, f_func, vol, Rz, wall, bottom, combined, mesh, error, out, memo>>

\* pts, wall_grid = pv.StructuredGrid(), dimensions, points.
BuildWall ==
  /\ pc = "wall"
  /\ variant \in UI
  /\ LET Z == linspace(H, N_Z)
         theta == theta_samples(N_THETA)
     IN wall' = StructuredGrid(N_THETA, N_Z,
                  wall_points(Rg, meshgrid_T(theta, Z), meshgrid_Z(theta, Z)))
  /\ pc' = IF variant = "oficial" THEN "wall_surface" ELSE "bottom"
  /\ UNCHANGED <<inputs, served, f_func, vol, Rz, Rg, raio_base, bottom, combined, mesh,
                 error, caught, out, memo>>

\* wall_mesh = wall_grid.extract_surface().triangulate()
WallSurface ==
  /\ pc = "wall_surface"
  /\ wall' = triangulate(extract_surface(wall))
  /\ pc' = "bottom"
  /\ UNCHANGED <<inputs, served, f_func, vol, Rz, Rg, raio_base, bottom, combined, mesh,
                 error, caught, out, memo>>

\* bottom = pv.Circle(radius=..., resolution=...)
Bottom ==
  /\ pc = "bottom"
  /\ variant \in UI
  /\ bottom' = Circle(raio_base, N_THETA)
  /\ pc' = IF variant = "oficial" THEN "bottom_triangulate" ELSE "combine"
  /\ UNCHANGED <<inputs, served, f_func, vol, Rz, Rg, raio_base, wall, combined, mesh,
                 error, caught, out, memo>>

\* bottom = bottom.triangulate()
BottomTriangulate ==
  /\ pc = "bottom_triangulate"
  /\ bottom' = triangulate(bottom)
  /\ pc' = "bottom_flip"
  /\ UNCHANGED <<inputs, served, f_func, vol, Rz, Rg, raio_base, wall, combined, mesh,
                 error, caught, out, memo>>

\* bottom = bottom.flip_normals(): the name is rebound to the value returned;
\* the mesh flipped in place is no longer referenced.
BottomFlip ==
  /\ pc = "bottom_flip"
  /\ bottom' = flip_normals(bottom).returned
  /\ pc' = "combine"
  /\ UNCHANGED <<inputs, served, f_func, vol, Rz, Rg, raio_base, wall, combined, mesh,
                 error, caught, out, memo>>

\* combined = wall_mesh + bottom
Combine ==
  /\ pc = "combine"
  /\ variant \in UI
  /\ combined' = merge(wall, bottom)
  /\ pc' = "finish"
  /\ UNCHANGED <<inputs, served, f_func, vol, Rz, Rg, raio_base, wall, bottom, mesh,
                 error, caught, out, memo>>

\* return combined.extract_surface().clean().triangulate()   (oficial)
\* return combined.extract_surface().triangulate()           (legacy)
Finish ==
  /\ pc = "finish"
  /\ mesh' = IF variant = "oficial"
             THEN triangulate(clean(extract_surface(combined)))
             ELSE triangulate(extract_surface(combined))
  /\ pc' = "ui_result"
  /\ UNCHANGED <<inputs, served, f_func, vol, locals, error, caught, out, memo>>

\* if mesh: screenshot, st.image, st.download_button
\* else: st.error("Erro: raio negativo detectado.")
UIResult ==
  /\ pc = "ui_result"
  /\ IF mesh.kind # "None"
     THEN /\ out' = out \cup {"image", "stl"}
          /\ error' = error
     ELSE /\ out' = out
          /\ error' = "raio negativo detectado"
  /\ pc' = "done"
  /\ UNCHANGED <<inputs, served, f_func, vol, locals, mesh, caught, memo>>

\* ------------------------------------------------ the command-line script
\* np.any(Rt < 0)
AnyNegative(x) ==
  CASE x.ndim = 0 -> x.s < 0
    [] x.ndim = 1 -> \E i \in DOMAIN x.a : x.a[i] < 0
    [] OTHER -> \E i \in DOMAIN x.a : \E j \in DOMAIN x.a[i] : x.a[i][j] < 0

\* gerar_mesh_pyvista(r0, H, f_func, n_z, n_theta): no clamp.
gerar_mesh_pyvista(r, h, e, n_z, n_theta) ==
  LET Z == linspace(h, n_z)
      theta == theta_samples(n_theta)
      Tg == meshgrid_T(theta, Z)
      Zg == meshgrid_Z(theta, Z)
      Rg_ == plus(r, f_cli(e, Arr2(Zg)).val)
  IN [Rg |-> Rg_, grid |-> StructuredGrid(n_theta, n_z, wall_points(Rg_, Tg, Zg))]

\* criar_fundo_pyvista(r0, n_points): n_points on the circle of radius r0,
\* angles from 0 to 2*pi inclusive, interior triangulated (delaunay_2d).
criar_fundo_pyvista(r, n_points) ==
  LET theta == theta_samples(n_points)
  IN triangulate([kind |-> "PolyData",
                  points |-> [k \in 1..n_points |-> Polar(r, theta[k], 0)],
                  cells |-> << [k \in 1..n_points |-> k] >>])

\* Mutant: the base radius is not validated.
Validate_height_only ==
  /\ pc = "start"
  /\ variant = "cli"
  /\ IF H <= 0
     THEN /\ error' = "SystemExit: Altura deve ser positiva"
          /\ pc' = "done"
     ELSE /\ error' = error
          /\ pc' = "make_f"
  /\ UNCHANGED <<inputs, served, f_func, vol, locals, mesh, caught, out, memo>>

\* if args.height <= 0: raise SystemExit;  if args.r0 < 0: raise SystemExit
Validate ==
  /\ pc = "start"
  /\ variant = "cli"
  /\ IF H <= 0
     THEN /\ error' = "SystemExit: Altura deve ser positiva"
          /\ pc' = "done"
     ELSE IF r0 < 0
          THEN /\ error' = "SystemExit: Raio do fundo deve ser nao-negativo"
               /\ pc' = "done"
          ELSE /\ error' = error
               /\ pc' = "make_f"
  /\ UNCHANGED <<inputs, served, f_func, vol, locals, mesh, caught, out, memo>>

\* f_func = make_f_func(args.func): probes float(f(0.0)), raises ValueError.
MakeFProbe ==
  /\ pc = "make_f"
  /\ IF f_cli(expr, Scalar(0)).raised # "none"
     THEN /\ error' = "ValueError: Expressao invalida para f(z)"
          /\ f_func' = f_func
          /\ pc' = "done"
     ELSE /\ error' = error
          /\ f_func' = expr
          /\ pc' = "ztest"
  /\ UNCHANGED <<inputs, served, vol, locals, mesh, caught, out, memo>>

\* Ztest = np.linspace(0.0, args.height, 50); Rt = args.r0 + f_func(Ztest)
\* if np.any(Rt < 0): raise SystemExit
CheckRadius ==
  /\ pc = "ztest"
  /\ IF AnyNegative(plus(r0, f_cli(f_func, Arr1(linspace(H, N_TEST))).val))
     THEN /\ error' = "SystemExit: Raio r(z) ficou negativo"
          /\ pc' = "done"
     ELSE /\ error' = error
          /\ pc' = "volume"
  /\ UNCHANGED <<inputs, served, f_func, vol, locals, mesh, caught, out, memo>>

\* vol = volume_polar_numeric(...); print(...).  An exception ends the run.
VolumePolar ==
  /\ pc = "volume"
  /\ variant = "cli"
  /\ LET res == volume_polar_numeric(r0, H, f_func, args_n_z)
     IN /\ Rz' = res.Rz
        /\ IF res.raised # "none"
           THEN /\ error' = res.raised
                /\ vol' = vol
                /\ out' = out
                /\ pc' = "done"
           ELSE /\ error' = error
                /\ vol' = res.vol
                /\ out' = out \cup {"volume"}
                /\ pc' = "gerar_mesh"
  /\ UNCHANGED <<inputs, served, f_func, Rg, raio_base, wall, bottom, combined, mesh, caught, memo>>

\* mesh = gerar_mesh_pyvista(args.r0, args.height, f_func, n_z=300, n_theta=240)
MeshPyvista ==
  /\ pc = "gerar_mesh"
  /\ variant = "cli"
  /\ LET res == gerar_mesh_pyvista(r0, H, f_func, N_Z, N_THETA)
     IN /\ Rg' = res.Rg
        /\ wall' = res.grid
  /\ pc' = "bottom"
  /\ UNCHANGED <<inputs, served, f_func, vol, Rz, raio_base, bottom, combined, mesh,
                 error, caught, out, memo>>

\* bottom = criar_fundo_pyvista(args.r0, n_points=256)
Fundo ==
  /\ pc = "bottom"
  /\ variant = "cli"
  /\ raio_base' = r0
  /\ bottom' = criar_fundo_pyvista(r0, N_POINTS)
  /\ pc' = "combine"
  /\ UNCHANGED <<inputs, served, f_func, vol, Rz, Rg, wall, combined, mesh, error, caught, out, memo>>

\* combined = mesh.combine(bottom); combined.save(out)
CombineSave ==
  /\ pc = "combine"
  /\ variant = "cli"
  /\ combined' = merge(wall, bottom)
  /\ mesh' = combined'
  /\ out' = out \cup {"stl"}
  /\ pc' = "done"
  /\ UNCHANGED <<inputs, served, f_func, vol, Rz, Rg, raio_base, wall, bottom, error, caught, memo>>

\* ----------------------------------------------------------- the system
Next ==
  \/ Request
  \/ MakeF
  \/ CalcularVolume
  \/ GerarMeshRadii
  \/ BuildWall
  \/ WallSurface
  \/ Bottom
  \/ BottomTriangulate
  \/ BottomFlip
  \/ Combine
  \/ Finish
  \/ UIResult
  \/ Validate
  \/ MakeFProbe
  \/ CheckRadius
  \/ VolumePolar
  \/ MeshPyvista
  \/ Fundo
  \/ CombineSave

Spec == Init /\ [][Next]_vars

\* The same system with the history variable memo in use.
NextHistory ==
  \/ Next
  \/ Remember

SpecHistory == Init /\ [][NextHistory]_vars

\* ------------------------------------------- sessions served concurrently
\* The block under "if mesh:" of the Streamlit pages, one statement a step,
\* for sessions whose gerar_mesh returned a mesh.
\* mesh = gerar_mesh(r0, height, f_func); if mesh: plotter.add_mesh(mesh, ...)
Serve(s) ==
  /\ session[s].pc \in {"idle", "done"}
  /\ \E r \in RadiiUI :
       session' = [session EXCEPT ![s] = [Idle EXCEPT !.pc = "screenshot", !.mesh = r]]
  /\ UNCHANGED <<pipeline, temp_copo, tmp_files>>

\* img_path = "temp_copo.png"; plotter.screenshot(img_path)
Screenshot(s) ==
  /\ session[s].pc = "screenshot"
  /\ temp_copo' = screenshot(session[s].mesh)
  /\ session' = [session EXCEPT ![s].pc = "image"]
  /\ UNCHANGED <<pipeline, tmp_files>>

\* st.image(img_path, ...): reads the file and shows its content
StImage(s) ==
  /\ session[s].pc = "image"
  /\ session' = [session EXCEPT ![s].shown = temp_copo, ![s].pc = "save"]
  /\ UNCHANGED <<pipeline, temp_copo, tmp_files>>

\* with tempfile.NamedTemporaryFile(suffix=".stl", delete=False) as tmp:
\*     mesh.save(tmp.name)
\* The name is one no existing file has; the file is never deleted.
MeshSave(s) ==
  /\ session[s].pc = "save"
  /\ \E n \in TmpNames :
       /\ tmp_files[n] = NoFile
       /\ tmp_files' = [tmp_files EXCEPT ![n] = save(session[s].mesh)]
       /\ session' = [session EXCEPT ![s].tmp = n, ![s].pc = "download"]
  /\ UNCHANGED <<pipeline, temp_copo>>

\* with open(tmp.name, "rb") as f: st.download_button(data=f, ...)
DownloadButton(s) ==
  /\ session[s].pc = "download"
  /\ session' = [session EXCEPT ![s].offered = tmp_files[session[s].tmp], ![s].pc = "done"]
  /\ UNCHANGED <<pipeline, temp_copo, tmp_files>>

NextSessions ==
  \/ \E s \in Sessions : Serve(s)
  \/ \E s \in Sessions : Screenshot(s)
  \/ \E s \in Sessions : StImage(s)
  \/ \E s \in Sessions : MeshSave(s)
  \/ \E s \in Sessions : DownloadButton(s)

SpecSessions == Init /\ [][NextSessions]_vars

\* ---------------------------------------------------------------- claims
\* The radial function the user means, as mathematics: f(z), 0 where the
\* Streamlit closure replaces a failing evaluation by zeros.
F(z) == IF Defined(expr) THEN ExprValue(expr, z) ELSE 0
Max0(x) == IF x < 0 THEN 0 ELSE x
ZSample(i, n) == IF n = 1 THEN 0 ELSE ((i - 1) * H) \div (n - 1)
Running == variant # ""
GeometryInvalid ==
  {"raio negativo detectado",
   "SystemExit: Altura deve ser positiva",
   "SystemExit: Raio do fundo deve ser nao-negativo",
   "SystemExit: Raio r(z) ficou negativo"}
ExpressionInvalid == {"ValueError: Expressao invalida para f(z)"}

\* Some radius baseRadius + f(z) sampled by the integrator or by the mesh
\* builder is negative.
NegativeSample ==
  /\ Defined(expr)
  /\ \/ \E i \in 1..args_n_z : r0 + F(ZSample(i, args_n_z)) < 0
     \/ \E i \in 1..N_Z : r0 + F(ZSample(i, N_Z)) < 0

\* C1: for every valid input (baseRadius >= 0, height > 0, no negative
\* sampled radius) the surface returned by gerar_mesh has no boundary edge
\* (every edge lies on exactly two triangles) and is one connected component.
C1_Manifold ==
  (pc = "done" /\ variant = "oficial" /\ mesh.kind # "None"
     /\ r0 >= 0 /\ H > 0 /\ Defined(expr) /\ ~NegativeSample)
  => (BoundaryEdges(mesh) = {} /\ OneComponent(mesh))

\* C2: when a sampled radius baseRadius + f(z) is negative, the request ends
\* with a GeometryInvalid error and the caller is given neither a volume nor
\* a mesh.
C2_NegativeRadiusRejected ==
  (pc = "done" /\ NegativeSample)
  => (error \in GeometryInvalid /\ "volume" \notin out /\ mesh.kind = "None")

\* C3: once make_f_func has run on an expression that names an undefined
\* symbol, the request has ended with ExpressionInvalid; no volume was
\* integrated and no mesh was built.
C3_UndefinedSymbolRejected ==
  (Running /\ ~Defined(expr) /\ pc \notin {"start", "make_f"}
     /\ error \notin GeometryInvalid)
  => (pc = "done" /\ error \in ExpressionInvalid
      /\ "volume" \notin out /\ wall.kind = "None")

\* C4: no failure is replaced by a default: when an except branch has taken
\* the place of an expression evaluation or of the integration, the caller
\* is given an error and no volume.
C4_NoSilentDefault ==
  (caught \cap {"f", "calcular_volume"} # {})
  => (error # "none" /\ "volume" \notin out)

\* C5: every radius the integrator used for a volume it returned, and every
\* radius the wall lattice was built with, is >= 0.
C5_RadiiNonNegative ==
  /\ ("volume" \in out => ~AnyNegative(Rz))
  /\ (wall.kind # "None" => ~AnyNegative(Rg))

\* C6: the base disk has the radius of the wall at z = 0,
\* max(baseRadius + f(0), 0), so the z = 0 ring of the wall lies on the
\* boundary circle of the disk.
C6_DiskRadius ==
  (bottom.kind # "None")
  => /\ \A k \in DOMAIN bottom.points : bottom.points[k][1] = Max0(r0 + F(0))
     /\ \A j \in 1..N_THETA : wall.points[j][1] = bottom.points[1][1]

\* C7: for f identically 0, baseRadius >= 0 and height > 0 the integrator
\* returns the cylinder volume pi * baseRadius^2 * H (2*V/pi = 2*r0^2*H).
FIsZero == \A z \in 0..H : F(z) = 0
C7_CylinderVolume ==
  (Running /\ FIsZero /\ r0 >= 0 /\ H > 0
     /\ (pc = "gerar_mesh" \/ (pc = "done" /\ f_func # "unbound" /\ error \notin GeometryInvalid)))
  => ("volume" \in out /\ vol = 2 * r0 * r0 * H)

\* The radius the script uses for the wall layer i: clamped at 0 by the
\* Streamlit pages, as computed by the command-line script.
WallRadius(i) ==
  IF variant \in UI THEN Max0(r0 + F(ZSample(i, N_Z))) ELSE r0 + F(ZSample(i, N_Z))

\* C8: the angular samples of the wall include both 0 and 2*pi: at every
\* height index the vertex at angular index 0 and the vertex at angular
\* index n_theta-1 have the same radius, the same z and the angles 0, 2*pi.
C8_SeamClosure ==
  (wall.kind # "None")
  => \A i \in 1..N_Z :
       LET first == wall.points[(i - 1) * N_THETA + 1]
           last == wall.points[i * N_THETA]
       IN /\ Coincide(first, last)
          /\ first[2] = 0
          /\ (WallRadius(i) # 0 => last[2] = TURN)

\* A wall with a layer of non-zero radius has been built.
C8_Witness ==
  /\ wall.kind # "None"
  /\ \E i \in 1..N_Z : WallRadius(i) # 0 /\ wall.points[i * N_THETA][2] = TURN

\* C9: the wall lattice holds exactly n_z * n_theta vertices, the vertex of
\* height index i and angular index j at flat position i*n_theta + j; a
\* layer whose radius is clamped to 0 is a full ring of n_theta coincident
\* vertices.
C9_Lattice ==
  (wall.kind # "None")
  => /\ Len(wall.points) = N_Z * N_THETA
     /\ \A i \in 1..N_Z : \A j \in 1..N_THETA :
          wall.points[(i - 1) * N_THETA + j]
            = IF WallRadius(i) = 0
              THEN <<0, 0, ZSample(i, N_Z)>>
              ELSE <<WallRadius(i), ((j - 1) * TURN) \div (N_THETA - 1), ZSample(i, N_Z)>>

\* A wall has been built with a layer clamped to radius 0 and a layer of
\* non-zero radius.
C9_Witness ==
  /\ wall.kind # "None"
  /\ variant \in UI
  /\ \E i \in 1..N_Z : r0 + F(ZSample(i, N_Z)) < 0
  /\ \E i \in 1..N_Z : WallRadius(i) > 0

\* C10: the result of a request depends on its inputs alone: a request that
\* finishes with the inputs of an earlier request has the volume, the mesh,
\* the error and the outputs of that earlier request.
SameInputs ==
  /\ memo.variant = variant
  /\ memo.r0 = r0
  /\ memo.H = H
  /\ memo.expr = expr
  /\ memo.n_z = args_n_z
C11_BadDimensionsRejected ==
  (Running /\ (H <= 0 \/ r0 < 0) /\ pc # "start")
  => /\ pc = "done"
     /\ error \in {"SystemExit: Altura deve ser positiva",
                   "SystemExit: Raio do fundo deve ser nao-negativo"}
     /\ f_func = "unbound"
     /\ Rz = Scalar(0)
     /\ Rg = Scalar(0)
     /\ wall = NoneMesh
     /\ bottom = NoneMesh
     /\ mesh = NoneMesh
     /\ out = {}

\* A request with a negative base radius and a positive height has been
\* rejected.
C11_Witness ==
  /\ pc = "done"
  /\ r0 < 0
  /\ H > 0
  /\ error = "SystemExit: Raio do fundo deve ser nao-negativo"

\* C12: a request with a sample count n_z < 2 is rejected: it is never given
\* a volume (no volume is computed from fewer than 2 samples) and it ends
\* with an error.
C12_DegenerateSamplesRejected ==
  (Running /\ args_n_z < 2)
  => ("volume" \notin out /\ (pc = "done" => error # "none"))

C14_WallTriangulatedBeforeUnion ==
  combined.kind # "None"
  => /\ wall.kind = "PolyData"
     /\ \A c \in DOMAIN wall.cells : Len(wall.cells[c]) = 3

\* The cells of mesh m that lie in the plane z = 0: the cells of the base
\* disk (every cell of the wall spans two layers).
DiskCells(m) ==
  {c \in DOMAIN m.cells : \A k \in 1..Len(m.cells[c]) : m.points[m.cells[c][k]][3] = 0}

\* Triangle c of mesh m runs through decreasing angles (clockwise seen from
\* +z, the opposite of the winding of pv.Circle as created).
Clockwise(m, c) ==
  LET a == [k \in 1..3 |-> m.points[m.cells[c][k]][2]]
  IN \/ (a[1] > a[2] /\ a[2] > a[3])
     \/ (a[2] > a[3] /\ a[3] > a[1])
     \/ (a[3] > a[1] /\ a[1] > a[2])

\* C15: in gerar_mesh the base disk (of positive radius) is triangles when
\* its normals are about to be inverted; the disk that is about to be
\* combined with the wall is triangles of the inverted winding; and the
\* combined surface and the surface returned hold the disk's triangles,
\* with the inverted winding.
C15_DiskFlippedBeforeUnion ==
  (variant = "oficial" /\ raio_base > 0)
  => /\ pc = "bottom_flip"
        => /\ bottom.kind = "PolyData"
           /\ \A c \in DOMAIN bottom.cells : Len(bottom.cells[c]) = 3
     /\ pc = "combine"
        => /\ bottom.kind = "PolyData"
           /\ \A c \in DOMAIN bottom.cells :
                Len(bottom.cells[c]) = 3 /\ Clockwise(bottom, c)
     /\ combined.kind # "None"
        => /\ Cardinality(DiskCells(combined)) = N_THETA - 2
           /\ \A c \in DiskCells(combined) : Clockwise(combined, c)
     /\ mesh.kind # "None"
        => /\ Cardinality(DiskCells(mesh)) = N_THETA - 2
           /\ \A c \in DiskCells(mesh) : Clockwise(mesh, c)

\* C16: in the surface gerar_mesh returns no two distinct vertices lie within
\* the weld tolerance of each other (here: coincide up to floating-point
\* error), and every vertex of the base disk is also a vertex of a wall
\* triangle, that is, it has been merged with a vertex of the z = 0 ring.
C16_Welded ==
  (variant = "oficial" /\ pc = "done" /\ mesh.kind # "None" /\ raio_base > 0)
  => /\ \A j, k \in DOMAIN mesh.points :
          j # k => ~Coincide(mesh.points[j], mesh.points[k])
     /\ DiskCells(mesh) # {}
     /\ \A c \in DiskCells(mesh) : \A v \in Range(mesh.cells[c]) :
          \E w \in DOMAIN mesh.cells : w \notin DiskCells(mesh) /\ v \in Range(mesh.cells[w])

\* C17: the image a session displays is the rendering of that session's own
\* mesh, and the STL it offers for download is the file saved from that
\* session's own mesh, whatever the interleaving of the sessions.
C17_OwnRendering ==
  \A s \in Sessions :
    /\ session[s].shown # NoFile => session[s].shown = screenshot(session[s].mesh)
    /\ session[s].offered # NoFile => session[s].offered = save(session[s].mesh)

====
